---- MODULE Spec2Model ----
(***************************************************************************)
(* TikTok profile scraper: src/src/main.ts (class TikTokScraper, main) and *)
(* src/src/helpers.ts (updateCursorInUrl).                                 *)
(*                                                                         *)
(* Spec     one run of main(): initialize, scrapeUserVideos (navigation,   *)
(*          cursor pagination, dedup), printing, cleanup, top-level catch. *)
(*          The browser, the network and Math.random are the environment:  *)
(*          their results are drawn with \E from small sets.               *)
(* SpecUrl  updateCursorInUrl applied to bounded URLs and cursor values.   *)
(***************************************************************************)
EXTENDS Integers, Sequences, FiniteSets, TLC

VARIABLES
    pc,            \* position of the single control flow of main()
    browser,       \* this.browser: "null" | "open" | "closed"
    context,       \* this.context is non-null
    page,          \* this.page is non-null
    maxVideos,     \* this.config.maxVideos
    firstApiUrl,   \* const firstApiUrl (raw URL of the first captured response)
    apiData,       \* let apiData (the page most recently consumed)
    allVideoIds,   \* const allVideoIds: string[]
    videoIds,      \* main's const videoIds (value returned by scrapeUserVideos)
    printed,       \* what main wrote to standard output
    caught,        \* the error bound in scrapeUserVideos' catch clause
    error,         \* the exception propagating out of main's try block
    logged,        \* what main().catch(console.error) logged
    exitCode,      \* exit code of the node process
    \* ---- history of the run (observations, never read by the program) ----
    lastDelay,     \* duration of the most recent waitForTimeout, 0 if none yet
    fetches,       \* calls of fetchApiData
    served,        \* <<page>> the page the API returned last
    lastRequest,   \* <<[url, after, n, pages]>> latest URL fetched, the page served before it,
                   \* its number and the pages consumed before it
    firstPage,     \* <<first page>> once captured
    uniform,       \* every consumed page had hasMore=true and the first page's size
    pagesConsumed, \* pages consumed: first page plus successful paginated fetches
    seenIds,       \* union of the identifiers of all pages consumed
    navigations,   \* page.goto calls
    screenshots,   \* page.screenshot calls
    cleanups,      \* scraper.cleanup calls
    fetchFailure,  \* <<[err, at]>> once a paginated fetch/substitution failed
    \* ---- updateCursorInUrl as a pure function (SpecUrl) ----
    uUrl,          \* argument url
    uCursor,       \* argument newCursor
    uOut           \* <<result>> once the function has been applied

vars == <<pc, browser, context, page, maxVideos, firstApiUrl, apiData, allVideoIds,
          videoIds, printed, caught, error, logged, exitCode, lastDelay, fetches,
          served, lastRequest, firstPage, uniform, pagesConsumed, seenIds, navigations,
          screenshots, cleanups, fetchFailure, uUrl, uCursor, uOut>>

scraperVars == <<pc, browser, context, page, maxVideos, firstApiUrl, apiData, allVideoIds,
          videoIds, printed, caught, error, logged, exitCode, lastDelay, fetches,
          served, lastRequest, firstPage, uniform, pagesConsumed, seenIds, navigations,
          screenshots, cleanups, fetchFailure>>

urlVars == <<uUrl, uCursor, uOut>>

(***************************************************************************)
(* Bounds of the model                                                     *)
(***************************************************************************)
MaxVideosBound == 3   \* config.maxVideos ranges over 0..MaxVideosBound
MaxPageLen == 2       \* items per API page: 0..MaxPageLen
MaxFetches == 2       \* paginated fetches explored per run
RandSteps == 3        \* Math.random() ranges over {0/RandSteps .. (RandSteps-1)/RandSteps}
MaxParams == 3        \* query parameters of a URL given to updateCursorInUrl

Ids == {"id1", "id2"}

(***************************************************************************)
(* Generic helpers                                                         *)
(***************************************************************************)
Range(s) == {s[i] : i \in 1..Len(s)}

SeqsUpTo(S, n) == UNION {[1..k -> S] : k \in 0..n}

NoDup(s) == \A i, j \in 1..Len(s) : i # j => s[i] # s[j]

Max(a, b) == IF a >= b THEN a ELSE b

CeilDiv(a, b) == (a + b - 1) \div b

(***************************************************************************)
(* helpers.ts: URLs.  A raw URL is [path, query]: path a sequence of       *)
(* segments as written, query a sequence of raw parameters [name, val, eq] *)
(* with val a sequence of raw characters (a percent escape is one          *)
(* character) and eq telling whether "=" is written.                       *)
(***************************************************************************)
Digits == <<"0", "1", "2", "3", "4", "5", "6", "7", "8", "9">>

RECURSIVE NumberToString(_)
NumberToString(n) ==
    IF n < 10 THEN <<Digits[n + 1]>>
    ELSE NumberToString(n \div 10) \o <<Digits[(n % 10) + 1]>>

\* newCursor.toString(): a string is itself, a number its decimal digits.
\* (undefined has no toString: see ToStringThrows.)
CursorToString(c) ==
    IF c.t = "num" THEN NumberToString(c.n) ELSE c.s

ToStringThrows(c) == c.t = "undef"

\* application/x-www-form-urlencoded parsing of one raw character
DecodeChar(ch) ==
    CASE ch = "+" -> " "
      [] ch = "%20" -> " "
      [] ch = "%2B" -> "+"
      [] OTHER -> ch

\* application/x-www-form-urlencoded serialising of one character
EncodeChar(ch) ==
    CASE ch = " " -> "+"
      [] ch = "+" -> "%2B"
      [] OTHER -> ch

Decode(s) == [i \in 1..Len(s) |-> DecodeChar(s[i])]

Encode(s) == [i \in 1..Len(s) |-> EncodeChar(s[i])]

\* URL parser, path state: "." is dropped, ".." removes the segment before
\* it, and a dot segment in last position leaves an empty last segment.
RECURSIVE NormalizePath(_, _, _)
NormalizePath(segs, i, acc) ==
    IF i > Len(segs) THEN acc
    ELSE LET s == segs[i]
             last == i = Len(segs)
             popped == IF acc = <<>> THEN acc ELSE SubSeq(acc, 1, Len(acc) - 1)
             next == CASE s = ".." -> IF last THEN Append(popped, "") ELSE popped
                       [] s = "." -> IF last THEN Append(acc, "") ELSE acc
                       [] OTHER -> Append(acc, s)
         IN  NormalizePath(segs, i + 1, next)

\* new URL(url): pathname and searchParams (decoded name/value pairs)
ParseUrl(url) ==
    [pathname |-> NormalizePath(url.path, 1, <<>>),
     searchParams |-> [i \in 1..Len(url.query) |->
                          [name |-> url.query[i].name,
                           value |-> Decode(url.query[i].val)]]]

\* parsedUrl.toString()
SerializeUrl(u) ==
    [path |-> u.pathname,
     query |-> [i \in 1..Len(u.searchParams) |->
                   [name |-> u.searchParams[i].name,
                    val |-> Encode(u.searchParams[i].value),
                    eq |-> TRUE]]]

FirstIndex(ps, name) ==
    CHOOSE i \in 1..Len(ps) :
        /\ ps[i].name = name
        /\ \A j \in 1..(i - 1) : ps[j].name # name

\* mutant of SearchParamsSet: URLSearchParams.append instead of set
SearchParamsAppend(ps, name, value) ==
    Append(ps, [name |-> name, value |-> value])

\* URLSearchParams.set(name, value): the first parameter of that name takes
\* the value and the others of that name are removed; appended if absent.
SearchParamsSet(ps, name, value) ==
    IF \E i \in 1..Len(ps) : ps[i].name = name
    THEN LET f == FirstIndex(ps, name)
             head == SubSeq(ps, 1, f - 1)
             tail == SubSeq(ps, f + 1, Len(ps))
             Other(p) == p.name # name
         IN  head \o <<[name |-> name, value |-> value]>> \o SelectSeq(tail, Other)
    ELSE Append(ps, [name |-> name, value |-> value])

updateCursorInUrl(url, newCursor) ==
    LET parsedUrl == ParseUrl(url)
    IN  SerializeUrl([parsedUrl EXCEPT
            !.searchParams = SearchParamsSet(@, "cursor", CursorToString(newCursor))])

\* URLSearchParams.getAll(name)
GetAll(ps, name) ==
    LET Named(p) == p.name = name
        sel == SelectSeq(ps, Named)
    IN  [i \in 1..Len(sel) |-> sel[i].value]

\* every parameter not called name, in order
Others(ps, name) ==
    LET Other(p) == p.name # name
    IN  SelectSeq(ps, Other)

(***************************************************************************)
(* main.ts: values                                                         *)
(***************************************************************************)
NumCursor(n) == [t |-> "num", n |-> n, s |-> <<>>]
StrCursor(s) == [t |-> "str", n |-> 0, s |-> s]
UndefCursor == [t |-> "undef", n |-> 0, s |-> <<>>]

\* cursors the API may put into a page (TikTokApiResponse.cursor); a response
\* without the field leaves it undefined
PageCursors == {NumCursor(10), StrCursor(<<"2", "0">>), UndefCursor}

\* interface TikTokApiResponse
Pages == [cursor : PageCursors, hasMore : BOOLEAN, itemList : SeqsUpTo(Ids, MaxPageLen)]

NoPage == [cursor |-> UndefCursor, hasMore |-> FALSE, itemList |-> <<>>]

EmptyUrl == [path |-> <<>>, query |-> <<>>]

RawParam(n, v) == [name |-> n, val |-> v, eq |-> TRUE]

\* URLs a response matching '/api/post/item_list' can carry (as the browser
\* reports them: path already normalised, query as sent)
FirstUrls ==
    {[path |-> <<"api", "post", "item_list">>,
      query |-> <<RawParam("secUid", <<"a", "%20">>), RawParam("cursor", <<"0">>),
                  RawParam("count", <<"3", "5">>)>>],
     [path |-> <<"api", "post", "item_list">>,
      query |-> <<RawParam("count", <<"3", "5">>), RawParam("secUid", <<"a", "%2B">>)>>]}

NoError == "none"

\* delayRange of the configuration main constructs the scraper with
DelayMin == 1000
DelayMax == 4000

\* waitForTimeout(3000 + Math.random() * 2000), Math.random() = r / RandSteps
DelayBase == 3000
DelaySpread == 2000
RandomDelay(r) == DelayBase + (r * DelaySpread) \div RandSteps

NoResult == [set |-> FALSE, ids |-> <<>>]
Result(ids) == [set |-> TRUE, ids |-> ids]

\* mutant of Dedupe: the list is returned as collected
DedupeKeepAll(s) == s

\* Array.from(new Set(allVideoIds)): first occurrences, in order
RECURSIVE Dedupe(_)
Dedupe(s) ==
    IF s = <<>> THEN <<>>
    ELSE LET init == Dedupe(SubSeq(s, 1, Len(s) - 1))
             last == s[Len(s)]
         IN  IF last \in Range(init) THEN init ELSE Append(init, last)

\* mutant of LoopCondition: bound tested with <=
LoopConditionInclusive(data, ids, max) == data.hasMore /\ Len(ids) <= max

\* while (apiData.hasMore && allVideoIds.length < this.config.maxVideos)
LoopCondition(data, ids, max) == data.hasMore /\ Len(ids) < max

\* mutant of NextUrl: the template is fetched again with its own cursor
NextUrlTemplate(template, data) == SerializeUrl(ParseUrl(template))

\* const nextUrl = updateCursorInUrl(firstApiUrl, apiData.cursor)
NextUrl(template, data) == updateCursorInUrl(template, data.cursor)

\* mutant of Rethrown: the catch clause throws an error of its own
RethrownGeneric(e) == "Error"

\* catch (error) { ...; throw error; }
Rethrown(e) == e

\* mutant of CloseBrowser: cleanup leaves the browser as it is
CloseBrowserSkipped(b) == b

\* if (this.browser) await this.browser.close()
CloseBrowser(b) == IF b = "open" THEN "closed" ELSE b

(***************************************************************************)
(* main.ts: one run of main()                                              *)
(***************************************************************************)
Init ==
    /\ pc = "Actor.init"
    /\ browser = "null"
    /\ context = FALSE
    /\ page = FALSE
    /\ maxVideos \in 0..MaxVideosBound
    /\ firstApiUrl = EmptyUrl
    /\ apiData = NoPage
    /\ allVideoIds = <<>>
    /\ videoIds = NoResult
    /\ printed = NoResult
    /\ caught = NoError
    /\ error = NoError
    /\ logged = NoError
    /\ exitCode = 0
    /\ lastDelay = 0
    /\ fetches = 0
    /\ served = <<>>
    /\ lastRequest = <<>>
    /\ firstPage = <<>>
    /\ uniform = FALSE
    /\ pagesConsumed = 0
    /\ seenIds = {}
    /\ navigations = 0
    /\ screenshots = 0
    /\ cleanups = 0
    /\ fetchFailure = <<>>
    /\ uUrl = EmptyUrl
    /\ uCursor = UndefCursor
    /\ uOut = <<>>

scrapeVars == <<firstApiUrl, apiData, allVideoIds, videoIds, printed, caught, logged,
                exitCode, lastDelay, fetches, served, lastRequest, firstPage, uniform,
                pagesConsumed, seenIds, navigations, screenshots, cleanups, fetchFailure>>

\* an awaited step of initialize() rejects: the exception leaves main's try block
InitFails ==
    /\ error' = "InitError"
    /\ pc' = "finally"

\* await Actor.init(); Actor.config.set('headless', false); generateFingerprint()
ActorInit ==
    /\ pc = "Actor.init"
    /\ \/ pc' = "launchBrowser" /\ UNCHANGED error
       \/ InitFails
    /\ UNCHANGED <<browser, context, page, maxVideos>>
    /\ UNCHANGED scrapeVars
    /\ UNCHANGED urlVars

\* this.browser = await this.launchBrowser(fingerprint)
launchBrowser ==
    /\ pc = "launchBrowser"
    /\ \/ browser' = "open" /\ pc' = "createContext" /\ UNCHANGED error
       \/ InitFails /\ UNCHANGED browser
    /\ UNCHANGED <<context, page, maxVideos>>
    /\ UNCHANGED scrapeVars
    /\ UNCHANGED urlVars

\* this.context = await this.createContext(this.browser, fingerprint)
createContext ==
    /\ pc = "createContext"
    /\ \/ context' = TRUE /\ pc' = "setupContext" /\ UNCHANGED error
       \/ InitFails /\ UNCHANGED context
    /\ UNCHANGED <<browser, page, maxVideos>>
    /\ UNCHANGED scrapeVars
    /\ UNCHANGED urlVars

\* setupStealthMode, injectFingerprint, addTikTokCookies, setupRouteBlocking:
\* each throws when the context is missing and may reject; none changes a field
setupContext ==
    /\ pc = "setupContext"
    /\ \/ context /\ pc' = "createPage" /\ UNCHANGED error
       \/ InitFails
    /\ UNCHANGED <<browser, context, page, maxVideos>>
    /\ UNCHANGED scrapeVars
    /\ UNCHANGED urlVars

\* this.page = await this.createPage()
createPage ==
    /\ pc = "createPage"
    /\ \/ context /\ page' = TRUE /\ pc' = "scrapeUserVideos" /\ UNCHANGED error
       \/ InitFails /\ UNCHANGED page
    /\ UNCHANGED <<browser, context, maxVideos>>
    /\ UNCHANGED scrapeVars
    /\ UNCHANGED urlVars

\* scrapeUserVideos up to the first page: page.goto and the awaited response
\* (the guard on this.page stands before the try block)
Navigate ==
    /\ pc = "scrapeUserVideos"
    /\ IF ~page
       THEN /\ error' = "Page not initialized"
            /\ pc' = "finally"
            /\ UNCHANGED <<firstApiUrl, apiData, allVideoIds, caught, served, firstPage,
                           uniform, pagesConsumed, seenIds, navigations>>
       ELSE /\ navigations' = navigations + 1
            /\ UNCHANGED error
            /\ \/ /\ caught' = "NavigationTimeout"
                  /\ pc' = "catch"
                  /\ UNCHANGED <<firstApiUrl, apiData, allVideoIds, served, firstPage,
                                 uniform, pagesConsumed, seenIds>>
               \/ \E url \in FirstUrls, p \in Pages :
                  /\ firstApiUrl' = url
                  /\ apiData' = p
                  /\ allVideoIds' = p.itemList
                  /\ served' = <<p>>
                  /\ firstPage' = <<p>>
                  /\ uniform' = (p.hasMore /\ Len(p.itemList) >= 1)
                  /\ pagesConsumed' = 1
                  /\ seenIds' = Range(p.itemList)
                  /\ pc' = "loop"
                  /\ UNCHANGED caught
    /\ UNCHANGED <<browser, context, page, maxVideos, videoIds, printed, logged, exitCode,
                   lastDelay, fetches, lastRequest, screenshots, cleanups, fetchFailure>>
    /\ UNCHANGED urlVars

\* one pass of the while body up to the push: updateCursorInUrl, fetchApiData
FetchNextPage ==
    /\ pc = "loop"
    /\ LoopCondition(apiData, allVideoIds, maxVideos)
    /\ fetches < MaxFetches
    /\ IF ToStringThrows(apiData.cursor)
       THEN /\ caught' = "InvalidUrlError"
            /\ fetchFailure' = <<[err |-> "InvalidUrlError", at |-> fetches]>>
            /\ pc' = "catch"
            /\ UNCHANGED <<apiData, allVideoIds, fetches, served, lastRequest, uniform,
                           pagesConsumed, seenIds>>
       ELSE /\ fetches' = fetches + 1
            /\ lastRequest' = <<[url |-> NextUrl(firstApiUrl, apiData), after |-> served[1],
                               n |-> fetches + 1, pages |-> pagesConsumed]>>
            /\ \/ \E e \in {"ApiFetchError: status", "ApiFetchError: json"} :
                  /\ caught' = e
                  /\ fetchFailure' = <<[err |-> e, at |-> fetches + 1]>>
                  /\ pc' = "catch"
                  /\ UNCHANGED <<apiData, allVideoIds, served, uniform, pagesConsumed, seenIds>>
               \/ \E p \in Pages :
                  /\ apiData' = p
                  /\ allVideoIds' = allVideoIds \o p.itemList
                  /\ served' = <<p>>
                  /\ uniform' = (uniform /\ p.hasMore
                                   /\ Len(p.itemList) = Len(firstPage[1].itemList))
                  /\ pagesConsumed' = pagesConsumed + 1
                  /\ seenIds' = seenIds \cup Range(p.itemList)
                  /\ pc' = "wait"
                  /\ UNCHANGED <<caught, fetchFailure>>
    /\ UNCHANGED <<browser, context, page, maxVideos, firstApiUrl, videoIds, printed, error,
                   logged, exitCode, lastDelay, firstPage, navigations, screenshots, cleanups>>
    /\ UNCHANGED urlVars

\* await this.page.waitForTimeout(3000 + Math.random() * 2000)
Wait ==
    /\ pc = "wait"
    /\ \E r \in 0..(RandSteps - 1) : lastDelay' = RandomDelay(r)
    /\ pc' = "loop"
    /\ UNCHANGED <<browser, context, page, maxVideos, firstApiUrl, apiData, allVideoIds,
                   videoIds, printed, caught, error, logged, exitCode, fetches, served,
                   lastRequest, firstPage, uniform, pagesConsumed, seenIds, navigations,
                   screenshots, cleanups, fetchFailure>>
    /\ UNCHANGED urlVars

\* the loop condition is false: dedup and return to main
ScrapeReturn ==
    /\ pc = "loop"
    /\ ~LoopCondition(apiData, allVideoIds, maxVideos)
    /\ videoIds' = Result(Dedupe(allVideoIds))
    /\ pc' = "print"
    /\ UNCHANGED <<browser, context, page, maxVideos, firstApiUrl, apiData, allVideoIds,
                   printed, caught, error, logged, exitCode, lastDelay, fetches, served,
                   lastRequest, firstPage, uniform, pagesConsumed, seenIds, navigations,
                   screenshots, cleanups, fetchFailure>>
    /\ UNCHANGED urlVars

\* catch (error) { console.error; await this.takeErrorScreenshot(); throw error; }
\* (a failing screenshot is caught inside takeErrorScreenshot)
ScrapeCatch ==
    /\ pc = "catch"
    /\ screenshots' = (IF page THEN screenshots + 1 ELSE screenshots)
    /\ error' = Rethrown(caught)
    /\ pc' = "finally"
    /\ UNCHANGED <<browser, context, page, maxVideos, firstApiUrl, apiData, allVideoIds,
                   videoIds, printed, caught, logged, exitCode, lastDelay, fetches, served,
                   lastRequest, firstPage, uniform, pagesConsumed, seenIds, navigations,
                   cleanups, fetchFailure>>
    /\ UNCHANGED urlVars

\* main: generateVideoUrls and the console.log lines
PrintResults ==
    /\ pc = "print"
    /\ printed' = Result(videoIds.ids)
    /\ pc' = "finally"
    /\ UNCHANGED <<browser, context, page, maxVideos, firstApiUrl, apiData, allVideoIds,
                   videoIds, caught, error, logged, exitCode, lastDelay, fetches, served,
                   lastRequest, firstPage, uniform, pagesConsumed, seenIds, navigations,
                   screenshots, cleanups, fetchFailure>>
    /\ UNCHANGED urlVars

\* finally { await scraper.cleanup(); }  Actor.exit() either ends the process
\* itself (exit code 0) or returns, and then a pending exception goes on to
\* main().catch and a normal completion lets the process end with code 0.
cleanup ==
    /\ pc = "finally"
    /\ browser' = CloseBrowser(browser)
    /\ cleanups' = cleanups + 1
    /\ \/ pc' = "exited" /\ exitCode' = 0
       \/ error # NoError /\ pc' = "main.catch" /\ UNCHANGED exitCode
       \/ error = NoError /\ pc' = "exited" /\ exitCode' = 0
    /\ UNCHANGED <<context, page, maxVideos, firstApiUrl, apiData, allVideoIds, videoIds,
                   printed, caught, error, logged, lastDelay, fetches, served, lastRequest,
                   firstPage, uniform, pagesConsumed, seenIds, navigations, screenshots,
                   fetchFailure>>
    /\ UNCHANGED urlVars

\* main().catch(console.error): the rejection is handled, the process ends with code 0
MainCatch ==
    /\ pc = "main.catch"
    /\ logged' = error
    /\ exitCode' = 0
    /\ pc' = "exited"
    /\ UNCHANGED <<browser, context, page, maxVideos, firstApiUrl, apiData, allVideoIds,
                   videoIds, printed, caught, error, lastDelay, fetches, served, lastRequest,
                   firstPage, uniform, pagesConsumed, seenIds, navigations, screenshots,
                   cleanups, fetchFailure>>
    /\ UNCHANGED urlVars

Next ==
    \/ ActorInit
    \/ launchBrowser
    \/ createContext
    \/ setupContext
    \/ createPage
    \/ Navigate
    \/ FetchNextPage
    \/ Wait
    \/ ScrapeReturn
    \/ ScrapeCatch
    \/ PrintResults
    \/ cleanup
    \/ MainCatch

Spec == Init /\ [][Next]_vars

(***************************************************************************)
(* helpers.ts: updateCursorInUrl on bounded inputs                         *)
(***************************************************************************)
UrlPaths ==
    {<<"api", "item_list">>, <<"api", ".", "item_list">>, <<"v1", "..", "api">>}

UrlParams ==
    {RawParam("cursor", <<"0">>), RawParam("cursor", <<"%2B">>),
     RawParam("a", <<"1">>), [name |-> "a", val |-> <<>>, eq |-> FALSE],
     RawParam("b", <<"x", "%20">>), RawParam("b", <<"+">>)}

UrlInputs == [path : UrlPaths, query : SeqsUpTo(UrlParams, MaxParams)]

CursorInputs == {NumCursor(7), NumCursor(120), StrCursor(<<"2", "+">>), StrCursor(<<"x", " ">>)}

InitUrl ==
    /\ pc = "updateCursorInUrl"
    /\ browser = "null"
    /\ context = FALSE
    /\ page = FALSE
    /\ maxVideos = 0
    /\ firstApiUrl = EmptyUrl
    /\ apiData = NoPage
    /\ allVideoIds = <<>>
    /\ videoIds = NoResult
    /\ printed = NoResult
    /\ caught = NoError
    /\ error = NoError
    /\ logged = NoError
    /\ exitCode = 0
    /\ lastDelay = 0
    /\ fetches = 0
    /\ served = <<>>
    /\ lastRequest = <<>>
    /\ firstPage = <<>>
    /\ uniform = FALSE
    /\ pagesConsumed = 0
    /\ seenIds = {}
    /\ navigations = 0
    /\ screenshots = 0
    /\ cleanups = 0
    /\ fetchFailure = <<>>
    /\ uUrl \in UrlInputs
    /\ uCursor \in CursorInputs
    /\ uOut = <<>>

ApplyUpdate ==
    /\ uOut = <<>>
    /\ uOut' = <<updateCursorInUrl(uUrl, uCursor)>>
    /\ UNCHANGED <<uUrl, uCursor>>
    /\ UNCHANGED scraperVars

NextUrlSpec == ApplyUpdate

SpecUrl == InitUrl /\ [][NextUrlSpec]_vars

(***************************************************************************)
(* Properties of the pagination loop (Spec)                                *)
(***************************************************************************)
Returned == videoIds.set

LastPageSize == Len(served[1].itemList)

UniqueCount == Cardinality(Range(allVideoIds))

\* C1 (as stated): the loop is left normally only when the most recent page
\* reports hasMore=false or the number of unique identifiers collected has
\* reached maxVideos.
C1_StopsOnlyAtUniqueBound ==
    Returned => (~apiData.hasMore \/ UniqueCount >= maxVideos)

\* C2 (as stated, every maxVideos >= 0): after a normal return the result
\* holds at most maxVideos + lastPageSize - 1 identifiers.
C2_OvershootBoundAnyMax ==
    Returned => Len(videoIds.ids) <= maxVideos + LastPageSize - 1

\* C2 (amended, maxVideos >= 1): after a normal return the result holds at
\* most maxVideos + lastPageSize - 1 identifiers.
C2_OvershootBound ==
    (Returned /\ maxVideos >= 1) => Len(videoIds.ids) <= maxVideos + LastPageSize - 1

\* the bound is met: an overshooting last page fetched by pagination
C2_Witness ==
    /\ Returned
    /\ maxVideos >= 1
    /\ fetches >= 1
    /\ LastPageSize = MaxPageLen
    /\ Len(videoIds.ids) = maxVideos + LastPageSize - 1

FirstPageSize == Len(firstPage[1].itemList)

\* C3 (as stated): with every page full (hasMore=true, pageSize >= 1 items)
\* at most ceil(maxVideos / pageSize) pages are consumed; a first page with
\* hasMore=false is the only page; a first page of at least maxVideos items
\* is followed by no fetch.
C3_PageCountBound ==
    /\ uniform => pagesConsumed <= CeilDiv(maxVideos, FirstPageSize)
    /\ (firstPage # <<>> /\ ~firstPage[1].hasMore) => (pagesConsumed = 1 /\ fetches = 0)
    /\ (firstPage # <<>> /\ FirstPageSize >= maxVideos) => fetches = 0

\* C3 (amended): as C3_PageCountBound, the bound on the pages consumed being
\* max(1, ceil(maxVideos / pageSize)): the first page is always consumed.
C3_PageCountBoundFromOne ==
    /\ uniform => pagesConsumed <= Max(1, CeilDiv(maxVideos, FirstPageSize))
    /\ (firstPage # <<>> /\ ~firstPage[1].hasMore) => (pagesConsumed = 1 /\ fetches = 0)
    /\ (firstPage # <<>> /\ FirstPageSize >= maxVideos) => fetches = 0

\* full pages all the way, the loop left after exactly ceil(maxVideos / pageSize) > 1 pages
C3_Witness ==
    /\ Returned
    /\ uniform
    /\ pagesConsumed >= 2
    /\ pagesConsumed = CeilDiv(maxVideos, FirstPageSize)

\* C4 (as stated): every wait between paginated requests lasts between
\* config.delayRange.min and config.delayRange.max milliseconds.
C4_DelayWithinConfiguredRange ==
    lastDelay # 0 => (DelayMin <= lastDelay /\ lastDelay <= DelayMax)

Failed == fetchFailure # <<>>

\* C5: once a paginated fetch (or the cursor substitution before it) has
\* failed, no further fetch is issued, the loop is not resumed, nothing is
\* returned or printed, and the error the caller receives is that failure.
C5_FetchFailureAborts ==
    Failed =>
        /\ fetches = fetchFailure[1].at
        /\ pc \in {"catch", "finally", "main.catch", "exited"}
        /\ videoIds = NoResult
        /\ printed = NoResult
        /\ pc = "catch" => caught = fetchFailure[1].err
        /\ pc # "catch" => error = fetchFailure[1].err

\* a fetch failed after two pages of identifiers had been collected, and the run is over
C5_Witness ==
    /\ Failed
    /\ pc = "exited"
    /\ pagesConsumed = 2
    /\ seenIds # {}
    /\ fetchFailure[1].at = 2

\* C6 (as stated): a run in which scrapeUserVideos threw a fatal error
\* (navigation timeout, API fetch error, invalid URL) ends with a non-zero
\* exit code.
C6_FatalErrorNonZeroExit ==
    (pc = "exited" /\ caught # NoError /\ error = caught) => exitCode # 0

\* C7: the list returned holds no identifier twice and exactly the
\* identifiers of the pages consumed.
C7_ResultIsUnionNoDup ==
    Returned => (NoDup(videoIds.ids) /\ Range(videoIds.ids) = seenIds)

\* two pages that share an identifier, collapsed to the two distinct identifiers
C7_Witness ==
    /\ Returned
    /\ pagesConsumed = 2
    /\ Len(allVideoIds) > Len(videoIds.ids)
    /\ Cardinality(seenIds) = 2
    /\ Range(firstPage[1].itemList) # seenIds

\* C9: the latest paginated request is the template URL with only the
\* cursor replaced, its cursor is that of the page consumed just before it
\* (the k-th page for the k-th request), that page reported hasMore=true,
\* and apiData is always the page the API returned last.
C9_RequestUsesLatestCursor ==
    /\ served # <<>> => apiData = served[1]
    /\ lastRequest # <<>> =>
          LET r == lastRequest[1]
              req == ParseUrl(r.url)
              tpl == ParseUrl(firstApiUrl)
          IN  /\ GetAll(req.searchParams, "cursor") = <<CursorToString(r.after.cursor)>>
              /\ Others(req.searchParams, "cursor") = Others(tpl.searchParams, "cursor")
              /\ req.pathname = tpl.pathname
              /\ r.after.hasMore
              /\ r.pages = r.n
              /\ fetches = r.n

\* a second paginated request carrying a cursor other than the first page's
C9_Witness ==
    /\ lastRequest # <<>>
    /\ fetches = 2
    /\ lastRequest[1].after.cursor # firstPage[1].cursor
    /\ pc = "wait"

Ended == pc \in {"main.catch", "exited"}

HasDotSegment(path) == \E i \in 1..Len(path) : path[i] \in {".", ".."}

\* C8 (as stated): the result's cursor parameter is the string form of the
\* value; the path, and the other parameters (names, values, multiplicity,
\* order), are those of the input.
C8_OnlyCursorChanged ==
    uOut # <<>> =>
        LET out == ParseUrl(uOut[1])
            in == ParseUrl(uUrl)
        IN  /\ GetAll(out.searchParams, "cursor") = <<CursorToString(uCursor)>>
            /\ Others(out.searchParams, "cursor") = Others(in.searchParams, "cursor")
            /\ uOut[1].path = uUrl.path

\* C8 (amended): as C8_OnlyCursorChanged, the path being the input's path
\* with its dot segments resolved (the input's path itself when it has none).
C8_OnlyCursorChangedPathNormalised ==
    uOut # <<>> =>
        LET out == ParseUrl(uOut[1])
            in == ParseUrl(uUrl)
        IN  /\ GetAll(out.searchParams, "cursor") = <<CursorToString(uCursor)>>
            /\ Others(out.searchParams, "cursor") = Others(in.searchParams, "cursor")
            /\ out.pathname = in.pathname
            /\ ~HasDotSegment(uUrl.path) => uOut[1].path = uUrl.path
            /\ ~HasDotSegment(uOut[1].path)

\* a URL carrying cursor twice among other parameters, rewritten with a cursor that needs escaping
C8_Witness ==
    /\ uOut # <<>>
    /\ Len(GetAll(ParseUrl(uUrl).searchParams, "cursor")) = 2
    /\ Len(Others(ParseUrl(uUrl).searchParams, "cursor")) = 1
    /\ uCursor = StrCursor(<<"2", "+">>)
    /\ uOut[1].query # uUrl.query

====
